---- MODULE Spec2Model ----
(***************************************************************************)
(* Model of PyQt5_Draw_a_Sphere_With_Background_Using_OpenGL.py: the       *)
(* OpenGLWindow widget (constructor, initializeGL, resizeGL, paintGL,      *)
(* render_background, update_frame, load_texture, draw_textured_sphere)    *)
(* and the fixed-function OpenGL state machine its handlers drive.         *)
(*                                                                         *)
(* Floating-point literals of the source are kept as fixed-point tenths:   *)
(* 0.5 is 5, 4.5 is 45, 45.0 is 450.  All values the program computes from *)
(* them (multiples of 0.5) are exact in binary floating point.  The aspect *)
(* ratio w / h is a true division and is kept as a reduced fraction.       *)
(***************************************************************************)
EXTENDS Integers, Sequences, FiniteSets, TLC

\* ---------------------------------------------------------------- bounds
MaxTicks == 3       \* timer ticks explored
MaxDim == 2         \* resizeGL is explored for w, h in 0..MaxDim

\* ------------------------------------------------------------- constants
None == 0           \* Python None for a texture id (glGenTextures names start at 1)
InitialWidth == 800
InitialHeight == 600

\* The image files the two constructor arguments may name.
Paths == {"", "8k_earth_daymap.jpg", "night-sky-star-background.png", "missing.jpg",
          "corrupt.jpg", "huge.jpg"}

\* What the file system and the graphics backend do with a path:
\* Image.open raises for a missing or undecodable file (and for ""),
\* glTexImage2D raises for pixels the context rejects.
FileStatus(image_file) ==
  CASE image_file = "8k_earth_daymap.jpg" -> "ok"
    [] image_file = "night-sky-star-background.png" -> "ok"
    [] image_file = "corrupt.jpg" -> "undecodable"
    [] image_file = "huge.jpg" -> "rejected"
    [] OTHER -> "unreadable"

\* ------------------------------------------------------------ arithmetic
RECURSIVE Gcd(_, _)
Gcd(a, b) == IF b = 0 THEN a ELSE Gcd(b, a % b)

\* Python's true division w / h of two non-negative ints, as a reduced
\* fraction <<numerator, denominator>>; <<0, 0>> stands for the
\* ZeroDivisionError raised when h = 0.
TrueDiv(w, h) ==
  IF h = 0 THEN <<0, 0>>
  ELSE LET d == Gcd(w, h) IN <<w \div d, h \div d>>

\* The float literal 1.0 as a fraction.
One == <<1, 1>>

\* ------------------------------------------------ OpenGL state machine
\* A matrix is the sequence of transformations multiplied into it since the
\* last glLoadIdentity; the identity is the empty sequence.
Identity == << >>

Xform(kind, args) == [kind |-> kind, args |-> args]

\* An untouched texture object, as glGenTextures creates it.
NewTexture == [image |-> "", flipped |-> FALSE, minFilter |-> "GL_NEAREST_MIPMAP_LINEAR",
               magFilter |-> "GL_LINEAR"]

\* The state of a freshly created context.
InitialGL ==
  [clearColor |-> <<0, 0, 0, 0>>,
   enabled    |-> {},
   matrixMode |-> "GL_MODELVIEW",
   projection |-> <<Identity>>,
   modelview  |-> <<Identity>>,
   viewport   |-> <<0, 0, InitialWidth, InitialHeight>>,
   textures   |-> << >>,
   bound      |-> 0,
   texcoord   |-> <<0, 0>>,
   prim       |-> << >>,
   quadrics   |-> {},
   quadricTex |-> {},
   log        |-> << >>]

Top(stack) == stack[Len(stack)]

SetTop(stack, m) == [stack EXCEPT ![Len(stack)] = m]

CurrentStack(g) == IF g.matrixMode = "GL_PROJECTION" THEN g.projection ELSE g.modelview

WithCurrentStack(g, s) ==
  IF g.matrixMode = "GL_PROJECTION" THEN [g EXCEPT !.projection = s]
  ELSE [g EXCEPT !.modelview = s]

\* One entry of the command log: the command and the state it was issued in.
LogEntry(g, op, args) ==
  [op |-> op, depth |-> "GL_DEPTH_TEST" \in g.enabled, tex |-> g.bound,
   proj |-> Top(g.projection), mv |-> Top(g.modelview), viewport |-> g.viewport,
   args |-> args]

glClearColor(g, r, gr, b, a) == [g EXCEPT !.clearColor = <<r, gr, b, a>>]

glEnable(g, cap) == [g EXCEPT !.enabled = @ \cup {cap}]

glDisable(g, cap) == [g EXCEPT !.enabled = @ \ {cap}]

glClear(g) == [g EXCEPT !.log = Append(@, LogEntry(g, "clear", << >>))]

glViewport(g, x, y, w, h) == [g EXCEPT !.viewport = <<x, y, w, h>>]

glMatrixMode(g, mode) == [g EXCEPT !.matrixMode = mode]

glLoadIdentity(g) == WithCurrentStack(g, SetTop(CurrentStack(g), Identity))

glPushMatrix(g) == WithCurrentStack(g, Append(CurrentStack(g), Top(CurrentStack(g))))

\* Popping the last matrix of a stack is GL_STACK_UNDERFLOW: the command is ignored.
glPopMatrix(g) ==
  IF Len(CurrentStack(g)) > 1
  THEN WithCurrentStack(g, SubSeq(CurrentStack(g), 1, Len(CurrentStack(g)) - 1))
  ELSE g

\* Multiply the current matrix by a transformation.
MultMatrix(g, x) ==
  WithCurrentStack(g, SetTop(CurrentStack(g), Append(Top(CurrentStack(g)), x)))

gluPerspective(g, fovy, aspect, zNear, zFar) ==
  MultMatrix(g, Xform("perspective", <<fovy, aspect[1], aspect[2], zNear, zFar>>))

gluOrtho2D(g, left, right, bottom, top) ==
  MultMatrix(g, Xform("ortho2D", <<left, right, bottom, top>>))

glTranslatef(g, x, y, z) == MultMatrix(g, Xform("translate", <<x, y, z>>))

glRotatef(g, a, x, y, z) == MultMatrix(g, Xform("rotate", <<a, x, y, z>>))

\* Scaling by (1.0, 1.0, 1.0) multiplies by the identity matrix.
glScalef(g, x, y, z) ==
  IF <<x, y, z>> = <<10, 10, 10>> THEN g ELSE MultMatrix(g, Xform("scale", <<x, y, z>>))

\* glGenTextures(1) returns the next unused texture name.
GenName(g) == Len(g.textures) + 1

glGenTextures(g) == [g EXCEPT !.textures = Append(@, NewTexture)]

glBindTexture(g, id) == [g EXCEPT !.bound = id]

glTexImage2D(g, image_file) ==
  [g EXCEPT !.textures[g.bound].image = image_file, !.textures[g.bound].flipped = TRUE]

glTexParameterf(g, pname, param) ==
  IF pname = "GL_TEXTURE_MIN_FILTER"
  THEN [g EXCEPT !.textures[g.bound].minFilter = param]
  ELSE [g EXCEPT !.textures[g.bound].magFilter = param]

glBegin(g) == [g EXCEPT !.prim = << >>]

glTexCoord2f(g, s, t) == [g EXCEPT !.texcoord = <<s, t>>]

glVertex2f(g, x, y) == [g EXCEPT !.prim = @ \o <<g.texcoord[1], g.texcoord[2], x, y>>]

glEnd(g) == [g EXCEPT !.log = Append(@, LogEntry(g, "quad", g.prim)), !.prim = << >>]

\* gluNewQuadric returns a quadric no live quadric shares.
NewQuadricName(g) == CHOOSE q \in 1..(Cardinality(g.quadrics) + 1) : q \notin g.quadrics

gluNewQuadric(g) ==
  [g EXCEPT !.quadrics = @ \cup {NewQuadricName(g)},
            !.log = Append(@, LogEntry(g, "newQuadric", <<NewQuadricName(g)>>))]

gluQuadricTexture(g, q, on) ==
  [g EXCEPT !.quadricTex = IF on THEN @ \cup {q} ELSE @ \ {q}]

gluSphere(g, q, radius, slices, stacks) ==
  [g EXCEPT !.log = Append(@, LogEntry(g, "sphere",
       <<q, radius, slices, stacks, IF q \in g.quadricTex THEN 1 ELSE 0>>))]

gluDeleteQuadric(g, q) ==
  [g EXCEPT !.quadrics = @ \ {q}, !.quadricTex = @ \ {q},
            !.log = Append(@, LogEntry(g, "deleteQuadric", <<q>>))]

\* ------------------------------------------------------- OpenGLWindow
\* Variant of load_texture that swallows the exception and returns None.
load_texture_swallow(g, image_file) ==
  LET texture_id == GenName(g)
      g1 == glBindTexture(glGenTextures(g), texture_id)
  IN  IF FileStatus(image_file) # "ok"
      THEN [gl |-> g1, id |-> None, error |-> ""]
      ELSE LET g2 == glTexImage2D(g1, image_file)
               g3 == glTexParameterf(g2, "GL_TEXTURE_MIN_FILTER", "GL_LINEAR")
               g4 == glTexParameterf(g3, "GL_TEXTURE_MAG_FILTER", "GL_LINEAR")
           IN  [gl |-> g4, id |-> texture_id, error |-> ""]

\* load_texture: the texture name is generated and bound before the image is
\* opened, so a failed load leaves the generated name behind in the context.
\* Returns the context, the texture id (None when an exception was raised)
\* and the exception.
load_texture(g, image_file) ==
  LET texture_id == GenName(g)
      g1 == glBindTexture(glGenTextures(g), texture_id)
      status == FileStatus(image_file)
  IN  IF status = "unreadable"
      THEN [gl |-> g1, id |-> None, error |-> "FileNotFoundError"]
      ELSE IF status = "undecodable"
      THEN [gl |-> g1, id |-> None, error |-> "UnidentifiedImageError"]
      ELSE IF status = "rejected"
      THEN [gl |-> g1, id |-> None, error |-> "GLError"]
      ELSE LET g2 == glTexImage2D(g1, image_file)
               g3 == glTexParameterf(g2, "GL_TEXTURE_MIN_FILTER", "GL_LINEAR")
               g4 == glTexParameterf(g3, "GL_TEXTURE_MAG_FILTER", "GL_LINEAR")
           IN  [gl |-> g4, id |-> texture_id, error |-> ""]

\* initializeGL: an exception raised by load_texture leaves the method at
\* the raising statement; assignments made before it stay.
initializeGL(g, texture_image, background_image, texture, bg_texture) ==
  LET g1 == glClearColor(g, 0, 0, 0, 10)
      g2 == glEnable(g1, "GL_DEPTH_TEST")
      g3 == glEnable(g2, "GL_TEXTURE_2D")
      t  == load_texture(g3, texture_image)
  IN  IF t.error # ""
      THEN [gl |-> t.gl, texture |-> texture, bg_texture |-> bg_texture, error |-> t.error]
      ELSE IF Len(background_image) > 0
      THEN LET b == load_texture(t.gl, background_image)
           IN  IF b.error # ""
               THEN [gl |-> b.gl, texture |-> t.id, bg_texture |-> bg_texture,
                     error |-> b.error]
               ELSE [gl |-> b.gl, texture |-> t.id, bg_texture |-> b.id, error |-> ""]
      ELSE [gl |-> t.gl, texture |-> t.id, bg_texture |-> bg_texture, error |-> ""]

\* Variant of resizeGL that divides with floor division (w // h).
resizeGL_floor(g, w, h) ==
  LET g1 == glViewport(g, 0, 0, w, h)
      g2 == glMatrixMode(g1, "GL_PROJECTION")
      g3 == glLoadIdentity(g2)
      g4 == gluPerspective(g3, 450, IF h # 0 THEN <<w \div h, 1>> ELSE One, 1, 1000)
  IN  glMatrixMode(g4, "GL_MODELVIEW")

\* resizeGL
resizeGL(g, w, h) ==
  LET g1 == glViewport(g, 0, 0, w, h)
      g2 == glMatrixMode(g1, "GL_PROJECTION")
      g3 == glLoadIdentity(g2)
      g4 == gluPerspective(g3, 450, IF h # 0 THEN TrueDiv(w, h) ELSE One, 1, 1000)
  IN  glMatrixMode(g4, "GL_MODELVIEW")

\* render_background, first part: depth test off, both matrices saved and
\* replaced by a pixel-space orthographic projection and an identity
\* model-view.  width and height are self.width() and self.height().
BackgroundSetup(g, width, height) ==
  LET g1 == glDisable(g, "GL_DEPTH_TEST")
      g2 == glMatrixMode(g1, "GL_PROJECTION")
      g3 == glPushMatrix(g2)
      g4 == glLoadIdentity(g3)
      g5 == gluOrtho2D(g4, 0, width, 0, height)
      g6 == glMatrixMode(g5, "GL_MODELVIEW")
      g7 == glPushMatrix(g6)
  IN  glLoadIdentity(g7)

\* render_background, second part: the textured quad.
BackgroundQuad(g, bg_texture, width, height) ==
  LET g1 == glBindTexture(g, bg_texture)
      g2 == glBegin(g1)
      g3 == glVertex2f(glTexCoord2f(g2, 0, 0), 0, 0)
      g4 == glVertex2f(glTexCoord2f(g3, 1, 0), width, 0)
      g5 == glVertex2f(glTexCoord2f(g4, 1, 1), width, height)
      g6 == glVertex2f(glTexCoord2f(g5, 0, 1), 0, height)
  IN  glEnd(g6)

\* Variant of the restore that leaves depth testing off.
BackgroundRestore_nodepth(g) ==
  LET g1 == glMatrixMode(g, "GL_PROJECTION")
      g2 == glPopMatrix(g1)
      g3 == glMatrixMode(g2, "GL_MODELVIEW")
  IN  glPopMatrix(g3)

\* Variant of the restore that pops the projection matrix only.
BackgroundRestore_nopop(g) ==
  LET g1 == glMatrixMode(g, "GL_PROJECTION")
      g2 == glPopMatrix(g1)
      g3 == glMatrixMode(g2, "GL_MODELVIEW")
  IN  glEnable(g3, "GL_DEPTH_TEST")

\* render_background, last part: both matrices restored, depth test on.
BackgroundRestore(g) ==
  LET g1 == glMatrixMode(g, "GL_PROJECTION")
      g2 == glPopMatrix(g1)
      g3 == glMatrixMode(g2, "GL_MODELVIEW")
      g4 == glPopMatrix(g3)
  IN  glEnable(g4, "GL_DEPTH_TEST")

\* render_background
render_background(g, bg_texture, width, height) ==
  BackgroundRestore(BackgroundQuad(BackgroundSetup(g, width, height),
                                   bg_texture, width, height))

\* Variant of draw_textured_sphere that never deletes the quadric.
draw_textured_sphere_leak(g, texture, radius, slices, stacks) ==
  LET g1 == glBindTexture(g, texture)
      quadric == NewQuadricName(g1)
      g2 == gluNewQuadric(g1)
      g3 == gluQuadricTexture(g2, quadric, TRUE)
  IN  gluSphere(g3, quadric, radius, slices, stacks)

\* draw_textured_sphere
draw_textured_sphere(g, texture, radius, slices, stacks) ==
  LET g1 == glBindTexture(g, texture)
      quadric == NewQuadricName(g1)
      g2 == gluNewQuadric(g1)
      g3 == gluQuadricTexture(g2, quadric, TRUE)
      g4 == gluSphere(g3, quadric, radius, slices, stacks)
  IN  gluDeleteQuadric(g4, quadric)

\* paintGL up to the background step: clear the buffers, reset the
\* model-view matrix.
PaintClear(g) == glLoadIdentity(glClear(g))

\* Variant of the sphere step that rotates by the angle of the tick before.
PaintSphere_stale(g, texture, angle) ==
  LET g1 == glTranslatef(g, 0, 0, -45)
      g2 == glRotatef(g1, angle - 5, 20, -10, -10)
      g3 == glScalef(g2, 10, 10, 10)
  IN  draw_textured_sphere(g3, texture, 15, 32, 32)

\* paintGL after the background step: camera offset, rotation, scale, sphere.
PaintSphere(g, texture, angle) ==
  LET g1 == glTranslatef(g, 0, 0, -45)
      g2 == glRotatef(g1, angle, 20, -10, -10)
      g3 == glScalef(g2, 10, 10, 10)
  IN  draw_textured_sphere(g3, texture, 15, 32, 32)

\* Variant of paintGL that renders the background unconditionally.
paintGL_always(g, texture, bg_texture, angle, width, height) ==
  PaintSphere(render_background(PaintClear(g), bg_texture, width, height), texture, angle)

\* paintGL
paintGL(g, texture, bg_texture, angle, width, height) ==
  LET g1 == PaintClear(g)
      g2 == IF bg_texture # None THEN render_background(g1, bg_texture, width, height)
            ELSE g1
  IN  PaintSphere(g2, texture, angle)

\* Variant of update_frame with the increment 1.0.
update_frame_fast(angle) == [angle |-> angle + 10, update |-> TRUE]

\* update_frame: the new angle, and the repaint request of self.update().
update_frame(angle) == [angle |-> angle + 5, update |-> TRUE]

\* ---------------------------------------------------------------- state
VARIABLES
  texture_image,      \* self.texture_image
  background_image,   \* self.background_image
  angle,              \* self.angle, in tenths of a degree
  texture,            \* self.texture
  bg_texture,         \* self.bg_texture
  width, height,      \* self.width(), self.height()
  state,              \* "Uninitialized" until initializeGL returns, then "Ready"
  error,              \* the exception initializeGL ended in, "" if none
  updatePending,      \* a repaint requested by self.update() is outstanding
  gl,                 \* the OpenGL context
  ticks,              \* history: number of update_frame calls so far
  paintTick,          \* history: value of ticks at the latest paintGL, -1 before
  resized,            \* history: resizeGL has run
  probe               \* history: render state around the latest render_background

vars == <<texture_image, background_image, angle, texture, bg_texture, width, height,
          state, error, updatePending, gl, ticks, paintTick, resized, probe>>

\* The part of the context render_background is to leave as it found it.
RenderState(g) ==
  [projection |-> g.projection, modelview |-> g.modelview,
   matrixMode |-> g.matrixMode, depth |-> "GL_DEPTH_TEST" \in g.enabled]

Draws(log, op) == SelectSeq(log, LAMBDA e : e.op = op)

NoProbe ==
  [ran |-> FALSE, entry |-> RenderState(InitialGL), exit |-> RenderState(InitialGL),
   plain |-> << >>]

\* The state after OpenGLWindow.__init__: the timer is already running.
Init ==
  /\ texture_image \in Paths
  /\ background_image \in Paths
  /\ angle = 0
  /\ texture = None
  /\ bg_texture = None
  /\ width = InitialWidth
  /\ height = InitialHeight
  /\ state = "Uninitialized"
  /\ error = ""
  /\ updatePending = FALSE
  /\ gl = InitialGL
  /\ ticks = 0
  /\ paintTick = -1
  /\ resized = FALSE
  /\ probe = NoProbe

\* The surface is ready: Qt calls initializeGL, once, before the first
\* resizeGL or paintGL.  An exception that leaves initializeGL is unhandled:
\* PyQt5 ends the process on it, so no handler runs afterwards.
InitializeGL ==
  /\ state = "Uninitialized"
  /\ error = ""
  /\ LET r == initializeGL(gl, texture_image, background_image, texture, bg_texture)
     IN  /\ gl' = r.gl
         /\ texture' = r.texture
         /\ bg_texture' = r.bg_texture
         /\ error' = r.error
         /\ state' = IF r.error = "" THEN "Ready" ELSE "Uninitialized"
  /\ UNCHANGED <<texture_image, background_image, angle, width, height, updatePending,
                 ticks, paintTick, resized, probe>>

\* The widget is resized to w x h: Qt calls resizeGL(width(), height()).
ResizeGL ==
  /\ state = "Ready"
  /\ \E w \in 0..MaxDim, h \in 0..MaxDim :
       /\ width' = w
       /\ height' = h
       /\ gl' = resizeGL(gl, w, h)
  /\ resized' = TRUE
  /\ UNCHANGED <<texture_image, background_image, angle, texture, bg_texture, state,
                 error, updatePending, ticks, paintTick, probe>>

\* The widget is repainted: Qt calls paintGL.
PaintGL ==
  /\ state = "Ready"
  /\ LET g0 == [gl EXCEPT !.log = << >>]
     IN  /\ gl' = paintGL(g0, texture, bg_texture, angle, width, height)
         /\ probe' =
              IF bg_texture # None
              THEN [ran |-> TRUE,
                    entry |-> RenderState(PaintClear(g0)),
                    exit |-> RenderState(render_background(PaintClear(g0), bg_texture,
                                                           width, height)),
                    plain |-> Draws(paintGL(g0, texture, None, angle, width, height).log,
                                    "sphere")]
              ELSE NoProbe
  /\ paintTick' = ticks
  /\ updatePending' = FALSE
  /\ UNCHANGED <<texture_image, background_image, angle, texture, bg_texture, width,
                 height, state, error, ticks, resized>>

\* The 16 ms timer started in the constructor fires: update_frame.
UpdateFrame ==
  /\ error = ""
  /\ ticks < MaxTicks
  /\ LET r == update_frame(angle)
     IN  /\ angle' = r.angle
         /\ updatePending' = r.update
  /\ ticks' = ticks + 1
  /\ UNCHANGED <<texture_image, background_image, texture, bg_texture, width, height,
                 state, error, gl, paintTick, resized, probe>>

Next == InitializeGL \/ ResizeGL \/ PaintGL \/ UpdateFrame

Spec == Init /\ [][Next]_vars

\* ------------------------------------------------------------ properties
Ops(log, ops) == SelectSeq(log, LAMBDA e : e.op \in ops)

OpNames(log) == [i \in 1..Len(log) |-> log[i].op]

\* The model-view matrix paintGL builds for the angle a.
SphereTransform(a) ==
  <<Xform("translate", <<0, 0, -45>>), Xform("rotate", <<a, 20, -10, -10>>)>>

C2_SphereTextureBeforePaint ==
  paintTick >= 0 =>
    /\ error = ""
    /\ state = "Ready"
    /\ texture # None
    /\ texture \in 1..Len(gl.textures)
    /\ gl.textures[texture].image = texture_image
    /\ FileStatus(texture_image) = "ok"
    /\ Len(Draws(gl.log, "sphere")) = 1
    /\ Draws(gl.log, "sphere")[1].tex = texture

C2_Witness == paintTick >= 1 /\ resized /\ bg_texture # None

\* C3: when initializeGL ends in a load error the component stays
\* Uninitialized and neither self.texture nor self.bg_texture holds a handle.
C3_FailedInitHoldsNoTexture ==
  error # "" => state = "Uninitialized" /\ texture = None /\ bg_texture = None

\* C4: with an empty background path the background load raises no error,
\* self.bg_texture stays unset forever, and no frame calls
\* render_background or draws a background quad.
C4_NoBackground ==
  background_image = "" =>
    /\ bg_texture = None
    /\ error # "" => FileStatus(texture_image) # "ok"
    /\ state = "Ready" => Len(gl.textures) = 1
    /\ Draws(gl.log, "quad") = << >>
    /\ ~probe.ran

C4_Witness ==
  background_image = "" /\ state = "Ready" /\ paintTick >= 1 /\ resized /\ ticks > paintTick

\* C5: with a background texture every frame is clear, one full-viewport
\* background quad, sphere, in that order; depth testing is off at the quad
\* and on at the clear, at the sphere and after the frame.
C5_BackgroundFrame ==
  (bg_texture # None /\ paintTick >= 0) =>
    LET d == Ops(gl.log, {"clear", "quad", "sphere"})
    IN  /\ OpNames(d) = <<"clear", "quad", "sphere">>
        /\ d[1].depth /\ ~d[2].depth /\ d[3].depth
        /\ "GL_DEPTH_TEST" \in gl.enabled
        /\ d[2].tex = bg_texture
        /\ d[2].mv = Identity
        /\ LET w == d[2].viewport[3]
               h == d[2].viewport[4]
           IN  /\ d[2].viewport = <<0, 0, w, h>>
               /\ d[2].proj = <<Xform("ortho2D", <<0, w, 0, h>>)>>
               /\ d[2].args = <<0, 0, 0, 0,  1, 0, w, 0,  1, 1, w, h,  0, 1, 0, h>>

C5_Witness == bg_texture # None /\ paintTick >= 2 /\ resized /\ width > 0 /\ height > 0

\* C6: the angle is 0.5 times the number of ticks so far; only a tick
\* changes it, by exactly 0.5, and it never decreases.
C6_AngleIsHalfPerTick ==
  /\ [](angle = 5 * ticks)
  /\ [][/\ angle' >= angle
        /\ (ticks' = ticks => angle' = angle)
        /\ (ticks' # ticks => ticks' = ticks + 1 /\ angle' = angle + 5)]_vars

C6_Witness == ticks >= 2 /\ angle = 5 * ticks /\ paintTick = 0 /\ resized

\* C7: a tick increments the angle once and leaves a repaint requested, and
\* the rotation a frame applies is the angle after the latest tick before it.
C7_PaintSeesPostIncrement ==
  /\ [](paintTick >= 0 =>
          /\ Len(Draws(gl.log, "sphere")) = 1
          /\ Draws(gl.log, "sphere")[1].mv = SphereTransform(5 * paintTick))
  /\ [][ticks' # ticks => angle' = angle + 5 /\ updatePending']_vars

C7_Witness == paintTick >= 1 /\ ~updatePending /\ ticks = paintTick

\* C8: after resizeGL(w, h) the projection is a perspective of field of
\* view 45, near 0.1, far 100.0 and aspect w/h for h > 0, 1.0 for h = 0
\* (no division by zero), and the viewport is (0, 0, w, h).
C8_ResizeProjection ==
  resized =>
    /\ gl.viewport = <<0, 0, width, height>>
    /\ Len(Top(gl.projection)) = 1
    /\ LET p == Top(gl.projection)[1]
       IN  /\ p.kind = "perspective"
           /\ p.args[1] = 450 /\ p.args[4] = 1 /\ p.args[5] = 1000
           /\ IF height > 0
              THEN p.args[3] > 0 /\ p.args[2] * height = p.args[3] * width
              ELSE p.args[2] = 1 /\ p.args[3] = 1

C8_Witness == resized /\ width = 1 /\ height = 2

\* C9: no quadric is live between handlers, and every frame creates exactly
\* one quadric, draws the sphere with it and deletes that same quadric.
C9_QuadricPerFrame ==
  /\ gl.quadrics = {}
  /\ gl.quadricTex = {}
  /\ paintTick >= 0 =>
       LET q == Ops(gl.log, {"newQuadric", "sphere", "deleteQuadric"})
       IN  /\ OpNames(q) = <<"newQuadric", "sphere", "deleteQuadric">>
           /\ q[1].args[1] = q[2].args[1]
           /\ q[3].args[1] = q[1].args[1]
           /\ Len(gl.log) = Len(q) + Len(Ops(gl.log, {"clear", "quad"}))

C9_Witness == paintTick >= 2 /\ gl.quadrics = {}

\* C10: render_background returns with both matrix stacks, the matrix mode
\* (model-view) and the depth test as on entry, so the sphere of a frame
\* with a background is drawn exactly as in a frame without one, and the
\* stacks do not grow from frame to frame.
C10_BackgroundRestoresState ==
  /\ Len(gl.projection) = 1
  /\ Len(gl.modelview) = 1
  /\ gl.matrixMode = "GL_MODELVIEW"
  /\ probe.ran =>
       /\ probe.exit.projection = probe.entry.projection
       /\ probe.exit.modelview = probe.entry.modelview
       /\ probe.exit.matrixMode = probe.entry.matrixMode
       /\ probe.exit.matrixMode = "GL_MODELVIEW"
       /\ probe.entry.depth /\ probe.exit.depth
       /\ Draws(gl.log, "sphere") = probe.plain
       /\ Len(probe.plain) = 1
       /\ probe.plain[1].proj = Top(probe.entry.projection)

C10_Witness == probe.ran /\ resized /\ paintTick >= 1 /\ Len(probe.plain) = 1

====
